---- MODULE Spec2Model ----
(***************************************************************************)
(* Model of utils/dataset.py: the two dataset builders                     *)
(*   create_criteo_dataset           (lines 23-75)                         *)
(*   create_explicit_ml_1m_dataset   (lines 78-109)                        *)
(* A call is a straight-line pass over an in-memory DataFrame.  The state  *)
(* is the call's arguments, the file it reads, its local variables and its *)
(* position (pc).  A DataFrame is a sequence of rows, each row a record    *)
(* that carries its index label next to its columns.  Floating point       *)
(* values are exact fractions <<num, den>> in lowest terms; <<0, 0>> is    *)
(* NaN.                                                                    *)
(***************************************************************************)
EXTENDS Integers, Sequences, FiniteSets

VARIABLES fn, args, file, pc, data_df, feature_columns,
          train, test, train_df, test_df, result, calls, prev

vars == <<fn, args, file, pc, data_df, feature_columns,
          train, test, train_df, test_df, result, calls, prev>>

\* ------------------------------------------------------------------ bounds
\* Longest rating file (rows) and longest CTR file (rows).
MaxMlRows == 4
MaxCtrRows == 3

\* Input domains of the rating file.
UserIds == {1, 2}
MovieIds == {1}
Ratings == {1, 2}
Timestamps == {1, 2}
\* Values a caller passes as test_size, in tenths (2 is 0.2, 5 is 0.5).
TestSizes == {2, 5}

\* ----------------------------------------------------------------- helpers
SeqsUpTo(D, lo, hi) == UNION {[1..n -> D] : n \in lo..hi}

Min(S) == CHOOSE x \in S : \A y \in S : x <= y
Max(S) == CHOOSE x \in S : \A y \in S : y <= x

RECURSIVE Gcd(_, _)
Gcd(a, b) == IF b = 0 THEN a ELSE Gcd(b, a % b)

\* The float n/d (d > 0, n >= 0) as a fraction in lowest terms.
Frac(n, d) == LET g == Gcd(n, d) IN <<n \div g, d \div g>>

NaN == <<0, 0>>

RECURSIVE SumOf(_, _)
SumOf(s, col) == IF s = <<>> THEN 0
                 ELSE s[1][col] + SumOf(Tail(s), col)

Perms(n) == {p \in [1..n -> 1..n] : \A i, j \in 1..n : p[i] = p[j] => i = j}

Permute(s, p) == [i \in 1..Len(s) |-> s[p[i]]]

\* numpy's astype('int32') of an int64 value.  Every integer of the model
\* lies in -2^31 .. 2^31 - 1, where the cast keeps the value.
Int32(x) == x

\* func.py's descriptor constructors, as create_*_dataset calls them.
denseFeature(feat) == [feat |-> feat]
sparseFeature(feat, feat_num, embed_dim) ==
    [feat |-> feat, feat_num |-> feat_num, embed_dim |-> embed_dim]

\* ---------------------------------------------------- CTR builder (23-75)
\* The 40 columns of line 33 are handled column by column (one LabelEncoder
\* per sparse column, MinMaxScaler scales each column on its own); the model
\* keeps the label, the first dense and the first sparse column.
sparse_features == <<"C1">>
dense_features == <<"I1">>

\* A dense cell as read_csv parses it: an integer-valued float or NaN.
DenseCells == {NaN, <<-1, 1>>, <<2, 1>>}
\* A sparse cell as text; the empty field is what read_csv reads as NaN.
SparseCells == {"", "-1", "68fd1e64"}
Labels == {1}
SampleNums == {2}

\* The text values of the model in the order Python sorts them.
StrSorted == <<"", "-1", "68fd1e64">>
StrRank(v) == CHOOSE k \in DOMAIN StrSorted : StrSorted[k] = v

CtrFileRows == [label : Labels, I1 : DenseCells, C1 : SparseCells]

\* lines 38-44: get_chunk(sample_num) is the first sample_num rows.
ReadCtr(f, read_part, sample_num) ==
    LET n == IF read_part /\ sample_num < Len(f) THEN sample_num ELSE Len(f)
    IN [i \in 1..n |-> [index |-> i - 1, label |-> f[i].label,
                        I1 |-> f[i].I1, C1 |-> f[i].C1]]

\* df[feats] = df[feats].fillna(value)
\* Variant: the frame is left as read, no imputation.
FillNaSkipped(df, feats, na, value) == df
RECURSIVE FillNa(_, _, _, _)
FillNa(df, feats, na, value) ==
    IF feats = <<>> THEN df
    ELSE FillNa([i \in 1..Len(df) |->
                    IF df[i][Head(feats)] = na
                    THEN [df[i] EXCEPT ![Head(feats)] = value]
                    ELSE df[i]],
                Tail(feats), na, value)

\* data_df[feat].unique()
Unique(df, feat) == {df[i][feat] : i \in DOMAIN df}

\* LabelEncoder().fit_transform: a value's position among the sorted
\* distinct values of its column.
\* Variant: ids counted from 1.
LabelOneBased(df, feat, v) ==
    Cardinality({c \in Unique(df, feat) : StrRank(c) <= StrRank(v)})
LabelOf(df, feat, v) ==
    Cardinality({c \in Unique(df, feat) : StrRank(c) < StrRank(v)})

\* lines 52-54
RECURSIVE EncodeSparse(_, _)
EncodeSparse(df, feats) ==
    IF feats = <<>> THEN df
    ELSE EncodeSparse([i \in 1..Len(df) |->
                          [df[i] EXCEPT ![Head(feats)] =
                              LabelOf(df, Head(feats), df[i][Head(feats)])]],
                      Tail(feats))

\* MinMaxScaler(feature_range=(0, 1)).fit_transform on one value of a
\* column: scale_ = 1 / (max - min), or 1 for a constant column;
\* X * scale_ + (0 - min * scale_).
\* Variant: X * scale_ without the min_ offset.
ScaledNoShift(df, feat, x) ==
    LET vals == {df[i][feat][1] : i \in DOMAIN df}
        rng == IF Max(vals) = Min(vals) THEN 1 ELSE Max(vals) - Min(vals)
    IN Frac(x[1], rng)
Scaled(df, feat, x) ==
    LET vals == {df[i][feat][1] : i \in DOMAIN df}
        mn == Min(vals)
        mx == Max(vals)
        rng == IF mx = mn THEN 1 ELSE mx - mn
    IN Frac(x[1] - mn, rng)

\* lines 59-62
RECURSIVE ScaleDense(_, _)
ScaleDense(df, feats) ==
    IF feats = <<>> THEN df
    ELSE ScaleDense([i \in 1..Len(df) |->
                        [df[i] EXCEPT ![Head(feats)] =
                            Scaled(df, Head(feats), df[i][Head(feats)])]],
                    Tail(feats))

\* lines 64-66
CtrFeatureColumns(df, embed_dim) ==
    << [k \in DOMAIN dense_features |-> denseFeature(dense_features[k])],
       [k \in DOMAIN sparse_features |->
           sparseFeature(sparse_features[k],
                         Cardinality(Unique(df, sparse_features[k])),
                         embed_dim)] >>

\* train_test_split: n_test = ceil(test_size * n), n_train = n - n_test.
NTest(n, test_size) == (test_size * n + 9) \div 10
NTrain(n, test_size) == n - NTest(n, test_size)

\* The test rows are the first n_test entries of a random permutation of the
\* rows, the train rows the n_train entries after them.
\* Variant: test taken from the end of the permutation.
SplitTestOverlap(df, p, test_size) ==
    [i \in 1..NTest(Len(df), test_size) |-> df[p[Len(df) + 1 - i]]]
SplitTest(df, p, test_size) ==
    [i \in 1..NTest(Len(df), test_size) |-> df[p[i]]]
SplitTrain(df, p, test_size) ==
    [i \in 1..NTrain(Len(df), test_size) |->
        df[p[NTest(Len(df), test_size) + i]]]

\* [df[dense_features].values, df[sparse_features].values.astype('int32')]
CtrX(df) ==
    << [i \in 1..Len(df) |->
           [k \in DOMAIN dense_features |-> df[i][dense_features[k]]]],
       [i \in 1..Len(df) |->
           [k \in DOMAIN sparse_features |->
               Int32(df[i][sparse_features[k]])]] >>

\* df['label'].values.astype('int32')
CtrY(df) == [i \in 1..Len(df) |-> Int32(df[i].label)]

CtrCall == fn = "create_criteo_dataset"

\* lines 38-47
CtrRead ==
    /\ CtrCall /\ pc = "read"
    /\ data_df' = ReadCtr(file, args.read_part, args.sample_num)
    /\ pc' = "fillna"
    /\ UNCHANGED <<fn, args, file, feature_columns, train, test,
                   train_df, test_df, result, calls, prev>>

\* lines 49-50
CtrFillNa ==
    /\ CtrCall /\ pc = "fillna"
    /\ data_df' = FillNa(FillNa(data_df, sparse_features, "", "-1"),
                         dense_features, NaN, <<0, 1>>)
    /\ pc' = "encode"
    /\ UNCHANGED <<fn, args, file, feature_columns, train, test,
                   train_df, test_df, result, calls, prev>>

\* lines 52-54
CtrEncode ==
    /\ CtrCall /\ pc = "encode"
    /\ data_df' = EncodeSparse(data_df, sparse_features)
    /\ pc' = "scale"
    /\ UNCHANGED <<fn, args, file, feature_columns, train, test,
                   train_df, test_df, result, calls, prev>>

\* lines 59-62
CtrScale ==
    /\ CtrCall /\ pc = "scale"
    /\ data_df' = ScaleDense(data_df, dense_features)
    /\ pc' = "feature_columns"
    /\ UNCHANGED <<fn, args, file, feature_columns, train, test,
                   train_df, test_df, result, calls, prev>>

\* lines 64-66
CtrFeatures ==
    /\ CtrCall /\ pc = "feature_columns"
    /\ feature_columns' = CtrFeatureColumns(data_df, args.embed_dim)
    /\ pc' = "split"
    /\ UNCHANGED <<fn, args, file, data_df, train, test,
                   train_df, test_df, result, calls, prev>>

\* lines 68-75; train_test_split raises ValueError when n_train is 0.
CtrSplitReturn ==
    /\ CtrCall /\ pc = "split"
    /\ IF NTrain(Len(data_df), args.test_size) = 0
       THEN /\ pc' = "error"
            /\ UNCHANGED <<train, test, result>>
       ELSE /\ \E p \in Perms(Len(data_df)) :
                  /\ train' = SplitTrain(data_df, p, args.test_size)
                  /\ test' = SplitTest(data_df, p, args.test_size)
            /\ result' = <<feature_columns, <<CtrX(train'), CtrY(train')>>,
                           <<CtrX(test'), CtrY(test')>> >>
            /\ pc' = "done"
    /\ UNCHANGED <<fn, args, file, data_df, feature_columns,
                   train_df, test_df, calls, prev>>

CtrInit ==
    /\ fn = "create_criteo_dataset"
    /\ file \in SeqsUpTo(CtrFileRows, 1, MaxCtrRows)
    /\ args \in [embed_dim : {8}, read_part : BOOLEAN,
                 sample_num : SampleNums, test_size : TestSizes]

CtrNext == CtrRead \/ CtrFillNa \/ CtrEncode \/ CtrScale \/ CtrFeatures
           \/ CtrSplitReturn

\* ------------------------------------------------- rating builder (78-109)
MlFileRows == [UserId : UserIds, MovieId : MovieIds,
               Rating : Ratings, Timestamp : Timestamps]

\* pd.read_csv(file, sep="::", names=[...]): a RangeIndex 0..n-1.
ReadMl(f) ==
    [i \in 1..Len(f) |->
        [index |-> i - 1, UserId |-> f[i].UserId, MovieId |-> f[i].MovieId,
         Rating |-> f[i].Rating, Timestamp |-> f[i].Timestamp]]

\* Variant: the user's rows sorted by Timestamp (stable).
RECURSIVE RowsOfUserByTime(_, _)
RowsOfUserByTime(df, u) ==
    LET g == SelectSeq(df, LAMBDA r : r.UserId = u)
    IN IF g = <<>> THEN <<>>
       ELSE LET t == Min({g[i].Timestamp : i \in DOMAIN g})
            IN SelectSeq(g, LAMBDA r : r.Timestamp = t)
               \o RowsOfUserByTime(
                      SelectSeq(df, LAMBDA r : r.Timestamp # t), u)
\* data_df[data_df.UserId == i]
RowsOfUser(df, u) == SelectSeq(df, LAMBDA r : r.UserId = u)

\* groupby(by='UserId')['Rating'].transform('mean')
\* Variant: the mean over the whole frame, no groupby.
GroupMeanAllRows(df, u) == Frac(SumOf(df, "Rating"), Len(df))
GroupMean(df, u) == LET g == RowsOfUser(df, u)
                    IN Frac(SumOf(g, "Rating"), Len(g))

WithAvgScore(df) ==
    [i \in 1..Len(df) |->
        [index |-> df[i].index, UserId |-> df[i].UserId,
         MovieId |-> df[i].MovieId, Rating |-> df[i].Rating,
         Timestamp |-> df[i].Timestamp,
         avg_score |-> GroupMean(df, df[i].UserId)]]

\* Series.max() + 1; NaN for an empty frame.
MaxPlusOne(df, col) ==
    IF df = <<>> THEN NaN ELSE Max({df[i][col] : i \in DOMAIN df}) + 1

MlFeatureColumns(df, latent_dim) ==
    <<  <<denseFeature("avg_score")>>,
        <<sparseFeature("user_id", MaxPlusOne(df, "UserId"), latent_dim),
          sparseFeature("item_id", MaxPlusOne(df, "MovieId"), latent_dim)>> >>

\* groupby(by='UserId')['MovieId'].agg('count'), indexed by UserId.
WatchCount(df) ==
    [u \in {df[i].UserId : i \in DOMAIN df} |-> Len(RowsOfUser(df, u))]

\* int(0.8 * watch_count[i]): the double 0.8 times a small count, truncated.
\* Variant: the cut follows the test_size argument.
SplitPointTestSize(watch) == ((10 - args.test_size) * watch) \div 10
\* Variant: the product is rounded, not truncated.
SplitPointRound(watch) == (8 * watch + 5) \div 10
SplitPoint(watch) == (8 * watch) \div 10

\* .iloc[k:]
\* Variant: the slice starts one row late.
ILocFromNext(s, k) == SubSeq(s, k + 2, Len(s))
ILocFrom(s, k) == SubSeq(s, k + 1, Len(s))

\* data_df[data_df.UserId == i].iloc[int(0.8 * watch_count[i]):]
UserTestSlice(df, watch_count, i) ==
    ILocFrom(RowsOfUser(df, i), SplitPoint(watch_count[i]))

\* pd.concat([... for i in watch_count.index]): users in ascending order.
RECURSIVE ConcatSlices(_, _, _)
ConcatSlices(df, watch_count, users) ==
    IF users = {} THEN <<>>
    ELSE LET i == Min(users)
         IN UserTestSlice(df, watch_count, i)
            \o ConcatSlices(df, watch_count, users \ {i})

\* data_df.drop(labels=test_df['index'])
DropLabels(df, labels) == SelectSeq(df, LAMBDA r : r.index \notin labels)

\* .drop(['index', 'Timestamp'], axis=1) followed by reset_index(drop=True):
\* the row keeps its four output columns and its index label is gone.
MlOutRow(r) == [UserId |-> r.UserId, MovieId |-> r.MovieId,
                Rating |-> r.Rating, avg_score |-> r.avg_score]

MlOutFrame(df) == [i \in 1..Len(df) |-> MlOutRow(df[i])]

\* [df['avg_score'].values, df[['UserId', 'MovieId']].values]
MlX(df) == << [i \in 1..Len(df) |-> df[i].avg_score],
              [i \in 1..Len(df) |-> <<df[i].UserId, df[i].MovieId>>] >>

\* df['Rating'].values.astype('int32')
MlY(df) == [i \in 1..Len(df) |-> Int32(df[i].Rating)]

\* The rows of a returned (X, y) pair as a multiset: row -> multiplicity.
MlRowAt(xy, k) == [avg_score |-> xy[1][1][k], UserId |-> xy[1][2][k][1],
                   MovieId |-> xy[1][2][k][2], Rating |-> xy[2][k]]

MlRowBag(xy) ==
    LET n == Len(xy[2])
        rows == {MlRowAt(xy, k) : k \in 1..n}
    IN [r \in rows |-> Cardinality({k \in 1..n : MlRowAt(xy, k) = r})]

\* What the caller keeps of a finished call.
Kept == [feature_columns |-> feature_columns,
         train |-> MlRowBag(result[2]), test |-> MlRowBag(result[3])]

MlCall == fn = "create_explicit_ml_1m_dataset"

\* lines 88-89
MlRead ==
    /\ MlCall /\ pc = "read"
    /\ data_df' = ReadMl(file)
    /\ pc' = "avg_score"
    /\ UNCHANGED <<fn, args, file, feature_columns, train, test,
                   train_df, test_df, result, calls, prev>>

\* line 90
MlAvgScore ==
    /\ MlCall /\ pc = "avg_score"
    /\ data_df' = WithAvgScore(data_df)
    /\ pc' = "feature_columns"
    /\ UNCHANGED <<fn, args, file, feature_columns, train, test,
                   train_df, test_df, result, calls, prev>>

\* lines 92-95
MlFeatures ==
    /\ MlCall /\ pc = "feature_columns"
    /\ feature_columns' = MlFeatureColumns(data_df, args.latent_dim)
    /\ pc' = "split"
    /\ UNCHANGED <<fn, args, file, data_df, train, test,
                   train_df, test_df, result, calls, prev>>

\* lines 97-101; pd.concat of an empty list raises ValueError.
MlSplit ==
    /\ MlCall /\ pc = "split"
    /\ LET watch_count == WatchCount(data_df)
       IN IF DOMAIN watch_count = {}
          THEN /\ pc' = "error"
               /\ UNCHANGED <<train_df, test_df>>
          ELSE LET t == ConcatSlices(data_df, watch_count, DOMAIN watch_count)
               IN /\ test_df' = t
                  /\ train_df' = DropLabels(data_df, {t[k].index : k \in DOMAIN t})
                  /\ pc' = "shuffle"
    /\ UNCHANGED <<fn, args, file, data_df, feature_columns, train, test,
                   result, calls, prev>>

\* lines 102-109: both frames lose Timestamp and the index, are shuffled
\* (sample(frac=1.)), and are returned as arrays.
MlShuffleReturn ==
    /\ MlCall /\ pc = "shuffle"
    /\ \E p \in Perms(Len(train_df)), q \in Perms(Len(test_df)) :
          /\ train_df' = Permute(MlOutFrame(train_df), p)
          /\ test_df' = Permute(MlOutFrame(test_df), q)
    /\ result' = <<feature_columns, <<MlX(train_df'), MlY(train_df')>>,
                   <<MlX(test_df'), MlY(test_df')>> >>
    /\ pc' = "done"
    /\ UNCHANGED <<fn, args, file, data_df, feature_columns, train, test,
                   calls, prev>>

\* The caller builds the dataset again from the same file with the same
\* latent_dim and another test_size, keeping the rows of the first result.
MlCallAgain ==
    /\ MlCall /\ pc = "done" /\ calls = 1
    /\ \E ts \in TestSizes \ {args.test_size} :
          args' = [args EXCEPT !.test_size = ts]
    /\ prev' = Kept
    /\ calls' = 2
    /\ pc' = "read"
    /\ data_df' = <<>> /\ feature_columns' = <<>>
    /\ train_df' = <<>> /\ test_df' = <<>> /\ result' = <<>>
    /\ UNCHANGED <<fn, file, train, test>>

MlInit ==
    /\ fn = "create_explicit_ml_1m_dataset"
    /\ file \in SeqsUpTo(MlFileRows, 0, MaxMlRows)
    /\ args \in [latent_dim : {4}, test_size : {2}]

MlNext == MlRead \/ MlAvgScore \/ MlFeatures \/ MlSplit
          \/ MlShuffleReturn \/ MlCallAgain

Init ==
    /\ (CtrInit \/ MlInit)
    /\ pc = "read"
    /\ data_df = <<>> /\ feature_columns = <<>>
    /\ train = <<>> /\ test = <<>>
    /\ train_df = <<>> /\ test_df = <<>>
    /\ result = <<>>
    /\ calls = 1
    /\ prev = <<>>

Next == CtrNext \/ MlNext

Spec == Init /\ [][Next]_vars

\* ------------------------------------------------------------ properties
MlDone == MlCall /\ pc = "done"
CtrDone == CtrCall /\ pc = "done"
\* After line 101: the split is made, the frames still carry index labels.
MlSplitMade == MlCall /\ pc = "shuffle"

\* watch_count(u) of the input file, and floor(0.8 * watch_count(u)).
FileCount(u) == Cardinality({i \in DOMAIN file : file[i].UserId = u})
Floor08(n) == (4 * n) \div 5

\* The rows of user u in a returned (X, y) pair.
OutRowsOf(xy, u) == {k \in 1..Len(xy[2]) : xy[1][2][k][1] = u}

Indices(df) == {df[i].index : i \in DOMAIN df}

\* C1: in every finished call of create_explicit_ml_1m_dataset, for every
\* user u the test set holds watch_count(u) - floor(0.8 * watch_count(u))
\* rows of u and the train set floor(0.8 * watch_count(u)) rows of u.
C1_PerUserCounts ==
    MlDone =>
      \A u \in UserIds :
        /\ Cardinality(OutRowsOf(result[3], u))
             = FileCount(u) - Floor08(FileCount(u))
        /\ Cardinality(OutRowsOf(result[2], u)) = Floor08(FileCount(u))

C1_Witness ==
    /\ MlDone
    /\ \E u, v \in UserIds :
          /\ FileCount(u) = 3 /\ FileCount(v) = 1
          /\ Cardinality(OutRowsOf(result[2], u)) = 2
          /\ Cardinality(OutRowsOf(result[3], u)) = 1

\* C2 as stated: a user with exactly one rating row has no row in the test
\* set, and the call does not fail.
C2_SingleRowUserNotInTest ==
    MlCall =>
      \A u \in UserIds :
        FileCount(u) = 1 =>
          /\ pc # "error"
          /\ pc = "done" => OutRowsOf(result[3], u) = {}

\* C2 amended: a user with exactly one rating row has that row in the test
\* set and no row in the train set; the call does not fail and, until it
\* has returned, always has a next step.
C2_SingleRowUserInTestOnly ==
    MlCall =>
      \A u \in UserIds :
        FileCount(u) = 1 =>
          /\ pc # "error"
          /\ pc # "done" => ENABLED MlNext
          /\ pc = "done" => /\ Cardinality(OutRowsOf(result[3], u)) = 1
                            /\ OutRowsOf(result[2], u) = {}

C2_Witness ==
    /\ MlDone
    /\ \E u \in UserIds :
          /\ FileCount(u) = 1
          /\ Cardinality(OutRowsOf(result[3], u)) = 1
          /\ Len(result[2][2]) > 0

\* C3 as stated: once the split is made, every test row of a user has a
\* Timestamp at least that of every train row of the same user.
C3_TestNotOlderThanTrain ==
    MlSplitMade =>
      \A i \in DOMAIN test_df, j \in DOMAIN train_df :
        test_df[i].UserId = train_df[j].UserId
          => test_df[i].Timestamp >= train_df[j].Timestamp

\* C4: train and test partition the loaded rows, in both builders: no index
\* label is in both frames, every loaded label is in one of them, no frame
\* repeats a label, and the returned arrays hold as many rows as were
\* loaded.
C4_Partition ==
    /\ (CtrDone \/ MlSplitMade) =>
         LET tr == IF CtrCall THEN train ELSE train_df
             te == IF CtrCall THEN test ELSE test_df
         IN /\ Indices(tr) \cap Indices(te) = {}
            /\ Indices(tr) \cup Indices(te) = Indices(data_df)
            /\ Cardinality(Indices(tr)) = Len(tr)
            /\ Cardinality(Indices(te)) = Len(te)
            /\ \A i \in DOMAIN tr : tr[i] = data_df[tr[i].index + 1]
            /\ \A i \in DOMAIN te : te[i] = data_df[te[i].index + 1]
    /\ (CtrDone \/ MlDone) =>
         /\ Len(result[2][1][1]) + Len(result[3][1][1]) = Len(data_df)
         /\ Len(result[2][2]) + Len(result[3][2]) = Len(data_df)

C4_Witness ==
    /\ CtrDone
    /\ Len(train) = 2 /\ Len(test) = 1
    /\ train[1].index > train[2].index

\* The loaded rows of the CTR file, and a cell after imputation.
CtrLoaded == 1..Len(data_df)
ImputedSparse(i, feat) == IF file[i][feat] = "" THEN "-1" ELSE file[i][feat]
ImputedDense(i, feat) == IF file[i][feat] = NaN THEN 0 ELSE file[i][feat][1]
CtrOutFrames == <<train, test>>

\* C5: in every finished call of create_criteo_dataset, every value of a
\* sparse column in train_X[1] and test_X[1] lies in 0 .. d - 1, where d is
\* the number of distinct values of the column after imputation (and after
\* encoding), and the column's descriptor records feat_num = d.
C5_SparseRange ==
    CtrDone =>
      \A k \in DOMAIN sparse_features :
        LET feat == sparse_features[k]
            d == Cardinality({ImputedSparse(i, feat) : i \in CtrLoaded})
        IN /\ d = Cardinality({data_df[i][feat] : i \in CtrLoaded})
           /\ feature_columns[2][k].feat_num = d
           /\ result[1][2][k].feat_num = d
           /\ \A s \in {2, 3} : \A i \in DOMAIN result[s][1][2] :
                 result[s][1][2][i][k] \in 0..(d - 1)

C5_Witness ==
    /\ CtrDone
    /\ feature_columns[2][1].feat_num = 2
    /\ \E i \in DOMAIN result[2][1][2] : result[2][1][2][i][1] = 1
    /\ \E i \in DOMAIN result[3][1][2] : result[3][1][2][i][1] = 0

C7_Imputation ==
    CtrDone =>
      /\ \A k \in DOMAIN sparse_features :
           \A s, t \in {1, 2} :
             \A i \in DOMAIN CtrOutFrames[s], j \in DOMAIN CtrOutFrames[t] :
               LET feat == sparse_features[k]
                   ci == file[CtrOutFrames[s][i].index + 1][feat]
                   cj == file[CtrOutFrames[t][j].index + 1][feat]
               IN ci = "" =>
                    ((cj \in {"", "-1"})
                       <=> (result[s + 1][1][2][i][k] = result[t + 1][1][2][j][k]))
      /\ \A k \in DOMAIN dense_features :
           \A s \in {1, 2} : \A i \in DOMAIN CtrOutFrames[s] :
             LET feat == dense_features[k]
                 vals == {ImputedDense(j, feat) : j \in CtrLoaded}
                 rng == IF Max(vals) = Min(vals) THEN 1 ELSE Max(vals) - Min(vals)
             IN file[CtrOutFrames[s][i].index + 1][feat] = NaN
                  => result[s + 1][1][1][i][k] = Frac(0 - Min(vals), rng)

C7_Witness ==
    /\ CtrDone
    /\ \E i, j \in DOMAIN train :
          /\ file[train[i].index + 1].C1 = ""
          /\ file[train[j].index + 1].C1 = "-1"
          /\ file[train[i].index + 1].I1 = NaN
          /\ result[2][1][1][i][1] = <<1, 3>>
    /\ file[test[1].index + 1].C1 = "68fd1e64"

\* C8: in every finished call of create_explicit_ml_1m_dataset, every
\* returned row of user u, train or test, carries as avg_score the mean
\* Rating over all of u's rows in the input file.
C8_AvgScore ==
    MlDone =>
      \A s \in {2, 3} : \A k \in 1..Len(result[s][2]) :
        LET u == result[s][1][2][k][1]
            rows == {i \in DOMAIN file : file[i].UserId = u}
            a == result[s][1][1][k]
        IN /\ a[2] > 0
           /\ a[1] * Cardinality(rows) = a[2] * SumOf(RowsOfUser(file, u), "Rating")
           /\ \A t \in {2, 3} : \A j \in 1..Len(result[t][2]) :
                 result[t][1][2][j][1] = u => result[t][1][1][j] = a

C8_Witness ==
    /\ MlDone
    /\ \E k \in 1..Len(result[2][2]), j \in 1..Len(result[3][2]) :
          /\ result[2][1][2][k][1] = result[3][1][2][j][1]
          /\ result[2][2][k] # result[3][2][j]
          /\ result[2][1][1][k] = <<3, 2>>
    /\ \E j \in 1..Len(result[3][2]) : result[3][1][1][j] = <<1, 1>>

====
